---------------------------- MODULE Spec2Model ----------------------------
(***************************************************************************)
(* A model of src/src/App.jsx: the App component's dataset load (fetch,    *)
(* parseCsv, aggregation) and its vote tally (live subscription and the    *)
(* castVote transaction against the shared Firestore record votes/position)*)
(* and of src/unnamed/part_000 (firebase.js), which decides whether db is  *)
(* null.                                                                   *)
(*                                                                         *)
(* Strings the code inspects character by character are sequences of       *)
(* one-character strings; strings it only compares or stores are TLA+      *)
(* strings.                                                                *)
(***************************************************************************)
EXTENDS Integers, Sequences, FiniteSets, TLC

(***************************************************************************)
(* Bounds of the model.                                                    *)
(***************************************************************************)
\* castVote calls started, over all clients
MaxVotes == 3
\* data rows of a served CSV document
MaxRows == 2
\* characters of a text handed to parseCsv on its own
MaxLen == 6

\* The clients (browser tabs) that share the vote record, and the one whose
\* dataset state is followed.
Clients == {"c1", "c2"}
Me == "c1"

VARIABLES
    \* ---- firebase.js
    db,                 \* TRUE: a Firestore handle; FALSE: db is null
    \* ---- the shared record votes/position and the server's clock
    store,              \* [exists, data]: the document as the server holds it
    now,                \* the last server timestamp handed out
    \* ---- per client: React state of the vote widget (App.jsx 231-234)
    voteStatus, voteError, voteCounts, isVoting,
    \* ---- per client: the onSnapshot listener and the castVote call in flight
    life,               \* "rendered" | "mounted" | "unmounted"
    sub,                \* "none" | "active" | "errored" | "closed"
    txPc,               \* "idle" | "get" | "commit" | "acked"
    txDir,              \* direction of the castVote in flight
    txSnap,             \* what tx.get read
    txAttempt,          \* attempts of the current (or last) transaction
    \* ---- history of the vote record
    initStore,          \* the record as it was at the start
    nFor, nAgainst,     \* transactions committed, by direction
    nCast,              \* castVote calls started
    \* ---- the observed App instance: React state of the dataset (224-229)
    status, error, indicators, selectedIndicator,
    totalsByIndicator, countsByIndicator,
    \* ---- the load() call of the first effect
    loadPc,             \* "init" | "fetch" | "text" | "done"
    cancelled,          \* the effect's cancelled flag
    resText,            \* [got, text]: the body res.text() resolved with
    \* ---- a call of parseCsv on its own
    csvText,            \* the text it is called with
    csvRows             \* [done, rows]: what it returned

voteVars == <<db, store, now, voteStatus, voteError, voteCounts, isVoting,
              life, sub, txPc, txDir, txSnap, txAttempt,
              initStore, nFor, nAgainst, nCast>>
dataVars == <<status, error, indicators, selectedIndicator,
              totalsByIndicator, countsByIndicator>>
loadVars == <<status, error, indicators, selectedIndicator,
              totalsByIndicator, countsByIndicator, loadPc, cancelled, resText>>
csvVars == <<csvText, csvRows>>
vars == <<db, store, now, voteStatus, voteError, voteCounts, isVoting,
          life, sub, txPc, txDir, txSnap, txAttempt,
          initStore, nFor, nAgainst, nCast,
          status, error, indicators, selectedIndicator,
          totalsByIndicator, countsByIndicator, loadPc, cancelled, resText,
          csvText, csvRows>>

(***************************************************************************)
(* The vote record.                                                        *)
(***************************************************************************)
Directions == {"for", "against"}

EmptyData == [k \in {} |-> 0]
NoDoc == [exists |-> FALSE, data |-> EmptyData]

VoteDoc(f, a, c, u) ==
    [exists |-> TRUE,
     data |-> [forCount |-> f, againstCount |-> a, createdAt |-> c, updatedAt |-> u]]

\* snap.exists() ? snap.data() ?? {} : {}
SnapData(snap) == IF snap.exists THEN snap.data ELSE EmptyData

\* Number(data.<k> ?? 0), kept if Number.isFinite: a count the record holds
\* is an integer, which both leave as it is; an absent field gives 0.
SafeCount(data, k) == IF k \in DOMAIN data THEN data[k] ELSE 0

\* nextFor: a castVote that adds the vote to the wrong test
NextForBoth(direction, safeFor) == safeFor + 1
NextFor(direction, safeFor) == IF direction = "for" THEN safeFor + 1 ELSE safeFor

NextAgainst(direction, safeAgainst) ==
    IF direction = "against" THEN safeAgainst + 1 ELSE safeAgainst

\* createdAt: always stamped anew
NextCreatedAtStamped(snap, stamp) == stamp
NextCreatedAt(snap, stamp) ==
    IF snap.exists /\ "createdAt" \in DOMAIN SnapData(snap)
    THEN SnapData(snap).createdAt
    ELSE stamp

\* The object castVote hands to tx.set, serverTimestamp() resolved to stamp.
VoteWrite(snap, direction, stamp) ==
    LET data == SnapData(snap)
    IN  [forCount |-> NextFor(direction, SafeCount(data, "forCount")),
         againstCount |-> NextAgainst(direction, SafeCount(data, "againstCount")),
         createdAt |-> NextCreatedAt(snap, stamp),
         updatedAt |-> stamp]

\* tx.set(ref, fields, { merge: true }) applied to the document
MergeSet(doc, fields) ==
    [exists |-> TRUE,
     data |-> [k \in DOMAIN doc.data \cup DOMAIN fields |->
                  IF k \in DOMAIN fields THEN fields[k] ELSE doc.data[k]]]

\* A commit that writes whatever was read, without the transaction's
\* check that the document is still the one tx.get returned.
CommitOKUnchecked(c) == TRUE
\* runTransaction commits only if the document read is unchanged.
CommitOK(c) == store = txSnap[c]

\* The early return of castVote: if (!db || !voteDocRef) return
CastGuardMissing == FALSE
CastDisabled == ~db

\* The counts the onSnapshot handler shows for a snapshot.
SnapCounts(snap) ==
    IF ~snap.exists
    THEN [forCount |-> 0, againstCount |-> 0]
    ELSE LET data == SnapData(snap)
         IN  [forCount |-> SafeCount(data, "forCount"),
              againstCount |-> SafeCount(data, "againstCount")]

\* Messages of the errors the store raises.
SubErrorMsg == "listen failed"
TxErrorMsg == "transaction failed"

(***************************************************************************)
(* Strings of characters.                                                  *)
(***************************************************************************)
EmptyStr == <<>>

Digits == <<"0", "1", "2", "3", "4", "5", "6", "7", "8", "9">>
LowerCase == <<"a", "b", "c", "d", "e", "f", "g", "h", "i", "j", "k", "l", "m",
               "n", "o", "p", "q", "r", "s", "t", "u", "v", "w", "x", "y", "z">>
UpperCase == <<"A", "B", "C", "D", "E", "F", "G", "H", "I", "J", "K", "L", "M",
               "N", "O", "P", "Q", "R", "S", "T", "U", "V", "W", "X", "Y", "Z">>
WhiteSpace == {" ", "\t", "\n", "\r"}

\* The index of x in sequence s, 0 when it is not there.
IndexOf(s, x) ==
    IF \E i \in 1..Len(s) : s[i] = x
    THEN CHOOSE i \in 1..Len(s) : s[i] = x /\ \A j \in 1..(i - 1) : s[j] # x
    ELSE 0

IsDigit(ch) == IndexOf(Digits, ch) # 0
DigitValue(ch) == IndexOf(Digits, ch) - 1

\* String.prototype.toLowerCase, character by character
LowerChar(ch) == IF IndexOf(UpperCase, ch) # 0 THEN LowerCase[IndexOf(UpperCase, ch)] ELSE ch
ToLowerCase(s) == [i \in 1..Len(s) |-> LowerChar(s[i])]

\* String.prototype.includes
Includes(s, needle) ==
    \E i \in 0..(Len(s) - Len(needle)) :
        \A j \in 1..Len(needle) : s[i + j] = needle[j]

\* Array.prototype.join: the strings of parts with sep between them
RECURSIVE Join(_, _)
Join(parts, sep) ==
    IF Len(parts) = 0 THEN EmptyStr
    ELSE IF Len(parts) = 1 THEN parts[1]
    ELSE parts[1] \o sep \o Join(Tail(parts), sep)

(***************************************************************************)
(* Numbers: [finite, n].  Number(string) for strings of digits, white      *)
(* space and letters: surrounding white space is dropped, the empty string *)
(* is 0, a run of digits is its decimal value, anything else NaN.  Inputs  *)
(* with signs, decimal points, exponents or radix prefixes are not drawn.  *)
(***************************************************************************)
Num(n) == [finite |-> TRUE, n |-> n]
NaN == [finite |-> FALSE, n |-> 0]

\* Number.isFinite
IsFinite(v) == v.finite

RECURSIVE TrimStart(_)
TrimStart(s) == IF Len(s) > 0 /\ s[1] \in WhiteSpace THEN TrimStart(Tail(s)) ELSE s

RECURSIVE TrimEnd(_)
TrimEnd(s) ==
    IF Len(s) > 0 /\ s[Len(s)] \in WhiteSpace THEN TrimEnd(SubSeq(s, 1, Len(s) - 1)) ELSE s

RECURSIVE DecimalValue(_)
DecimalValue(s) ==
    IF Len(s) = 0 THEN 0
    ELSE 10 * DecimalValue(SubSeq(s, 1, Len(s) - 1)) + DigitValue(s[Len(s)])

\* Number(s)
StrToNum(s) ==
    LET t == TrimEnd(TrimStart(s))
    IN  IF Len(t) = 0 THEN Num(0)
        ELSE IF \A i \in 1..Len(t) : IsDigit(t[i]) THEN Num(DecimalValue(t))
        ELSE NaN

\* String(n) of a non-negative integer
RECURSIVE NumToStr(_)
NumToStr(n) ==
    IF n < 10 THEN <<Digits[n + 1]>>
    ELSE NumToStr(n \div 10) \o <<Digits[(n % 10) + 1]>>

\* s.padStart(2, '0')
PadStart2(s) == IF Len(s) >= 2 THEN s ELSE IF Len(s) = 1 THEN <<"0">> \o s ELSE <<"0", "0">>

(***************************************************************************)
(* parseCsv (168-221).                                                     *)
(***************************************************************************)
\* A loop body without the test for an escaped quote: every quote toggles.
ParseStepNoEscape(text, i, st) ==
    LET c == text[i]
    IN  IF c = "\""
        THEN [st EXCEPT !.inQuotes = ~@]
        ELSE IF c = "," /\ ~st.inQuotes
        THEN [st EXCEPT !.row = Append(@, st.field), !.field = EmptyStr]
        ELSE IF c = "\n" /\ ~st.inQuotes
        THEN [st EXCEPT !.rows = Append(@, Append(st.row, st.field)),
                        !.row = <<>>, !.field = EmptyStr]
        ELSE IF c = "\r"
        THEN st
        ELSE [st EXCEPT !.field = Append(@, c)]

\* One pass of the loop body (175-206) at character i.  st.skip stands for
\* the `i += 1` of an escaped quote: the next character is passed over.
ParseStep(text, i, st) ==
    LET c == text[i]
    IN  IF st.skip THEN [st EXCEPT !.skip = FALSE]
        ELSE IF c = "\""
        THEN IF st.inQuotes /\ i + 1 <= Len(text) /\ text[i + 1] = "\""
             THEN [st EXCEPT !.field = Append(@, "\""), !.skip = TRUE]
             ELSE [st EXCEPT !.inQuotes = ~@]
        ELSE IF c = "," /\ ~st.inQuotes
        THEN [st EXCEPT !.row = Append(@, st.field), !.field = EmptyStr]
        ELSE IF c = "\n" /\ ~st.inQuotes
        THEN [st EXCEPT !.rows = Append(@, Append(st.row, st.field)),
                        !.row = <<>>, !.field = EmptyStr]
        ELSE IF c = "\r"
        THEN st
        ELSE [st EXCEPT !.field = Append(@, c)]

\* The loop (174-207) over characters lo..hi, in order.  The range is halved
\* and the first half is evaluated (the test on left.skip, always true) before
\* the second starts, which keeps TLC's evaluation shallow.
RECURSIVE ParseLoop(_, _, _, _)
ParseLoop(text, lo, hi, st) ==
    IF lo > hi THEN st
    ELSE IF lo = hi THEN ParseStep(text, lo, st)
    ELSE LET mid == (lo + hi) \div 2
             left == ParseLoop(text, lo, mid, st)
         IN  IF left.skip \in BOOLEAN THEN ParseLoop(text, mid + 1, hi, left) ELSE left

\* rows[rows.length - 1].every((v) => v === '')
EveryEmpty(row) == \A i \in 1..Len(row) : row[i] = EmptyStr

\* rows.filter: every empty row removed, wherever it stands
DropEveryEmpty(rows) == SelectSeq(rows, LAMBDA row : ~EveryEmpty(row))

\* while (rows.length > 0 && last row is all empty) rows.pop()
RECURSIVE DropTrailingEmpty(_)
DropTrailingEmpty(rows) ==
    IF Len(rows) > 0 /\ EveryEmpty(rows[Len(rows)])
    THEN DropTrailingEmpty(SubSeq(rows, 1, Len(rows) - 1))
    ELSE rows

\* The rows after the loop and the flush of the last field and row (169-213).
ParseRows(text) ==
    LET end == ParseLoop(text, 1, Len(text),
                         [rows |-> <<>>, row |-> <<>>, field |-> EmptyStr,
                          inQuotes |-> FALSE, skip |-> FALSE])
    IN  IF Len(end.field) > 0 \/ Len(end.row) > 0
        THEN Append(end.rows, Append(end.row, end.field))
        ELSE end.rows

ParseCsv(text) == DropTrailingEmpty(ParseRows(text))

(***************************************************************************)
(* The aggregation of load() (251-316).                                    *)
(***************************************************************************)
MONTHS ==
    << <<"J", "a", "n", "u", "a", "r", "y">>,
       <<"F", "e", "b", "r", "u", "a", "r", "y">>,
       <<"M", "a", "r", "c", "h">>,
       <<"A", "p", "r", "i", "l">>,
       <<"M", "a", "y">>,
       <<"J", "u", "n", "e">>,
       <<"J", "u", "l", "y">>,
       <<"A", "u", "g", "u", "s", "t">>,
       <<"S", "e", "p", "t", "e", "m", "b", "e", "r">>,
       <<"O", "c", "t", "o", "b", "e", "r">>,
       <<"N", "o", "v", "e", "m", "b", "e", "r">>,
       <<"D", "e", "c", "e", "m", "b", "e", "r">> >>

ColYear == <<"Y", "e", "a", "r">>
ColMonth == <<"M", "o", "n", "t", "h">>
ColIndicator == <<"I", "n", "d", "i", "c", "a", "t", "o", "r">>
ColDataValue == <<"D", "a", "t", "a", " ", "V", "a", "l", "u", "e">>
ColPredictedValue == <<"P", "r", "e", "d", "i", "c", "t", "e", "d", " ", "V", "a", "l", "u", "e">>
NeedleAll == <<"a", "l", "l">>

\* MONTH_TO_NUM.get(monthName); 0 stands for undefined
MonthToNum(monthName) == IndexOf(MONTHS, monthName)

\* colIndex[name], counted from 1; 0 stands for undefined.  Object.fromEntries
\* keeps the last of two columns of one name.
ColIndex(headerRow, name) ==
    LET hits == {i \in 1..Len(headerRow) : headerRow[i] = name}
    IN  IF hits = {} THEN 0 ELSE CHOOSE i \in hits : \A j \in hits : j <= i

ColumnIndexes(headerRow) ==
    [year |-> ColIndex(headerRow, ColYear),
     month |-> ColIndex(headerRow, ColMonth),
     indicator |-> ColIndex(headerRow, ColIndicator),
     dataValue |-> ColIndex(headerRow, ColDataValue),
     predicted |-> ColIndex(headerRow, ColPredictedValue)]

\* A check that forgets the Indicator column.
MissingRequiredButIndicator(idx) == idx.year = 0 \/ idx.month = 0 \/ idx.dataValue = 0
\* A check that takes the optional column for a required one.
MissingRequiredOrPredicted(idx) ==
    idx.year = 0 \/ idx.month = 0 \/ idx.indicator = 0 \/ idx.dataValue = 0
        \/ idx.predicted = 0
\* The test of 264-269.
MissingRequired(idx) ==
    idx.year = 0 \/ idx.month = 0 \/ idx.indicator = 0 \/ idx.dataValue = 0

\* r.slice(0, headerRow.length), padded with '' to that length
NormalizeRow(r, n) == [i \in 1..n |-> IF i <= Len(r) THEN r[i] ELSE EmptyStr]

\* `${year}-${String(monthNum).padStart(2, '0')}`
MonthKey(year, monthNum) == NumToStr(year) \o <<"-">> \o PadStart2(NumToStr(monthNum))

EmptyMap == [k \in {} |-> 0]

\* m[indicator][monthKey] = v: the value assigned, not added
AccumulateOverwrite(m, indicator, monthKey, v) ==
    LET inner == IF indicator \in DOMAIN m THEN m[indicator] ELSE EmptyMap
        set == [k \in DOMAIN inner \cup {monthKey} |->
                   IF k = monthKey THEN v ELSE inner[k]]
    IN  [i \in DOMAIN m \cup {indicator} |-> IF i = indicator THEN set ELSE m[i]]

\* m[indicator][monthKey] = (m[indicator][monthKey] ?? 0) + v, the inner
\* object created when it is not there
Accumulate(m, indicator, monthKey, v) ==
    LET inner == IF indicator \in DOMAIN m THEN m[indicator] ELSE EmptyMap
        bumped == [k \in DOMAIN inner \cup {monthKey} |->
                      IF k = monthKey
                      THEN (IF monthKey \in DOMAIN inner THEN inner[monthKey] ELSE 0) + v
                      ELSE inner[k]]
    IN  [i \in DOMAIN m \cup {indicator} |-> IF i = indicator THEN bumped ELSE m[i]]

\* What one data row reads (281-293): row[undefined] is undefined, which
\* `|| ''` turns into '' and Number into NaN.
RowIndicator(row, idx) == IF idx.indicator = 0 THEN EmptyStr ELSE row[idx.indicator]
RowYear(row, idx) == IF idx.year = 0 THEN NaN ELSE StrToNum(row[idx.year])
RowMonthNum(row, idx) == IF idx.month = 0 THEN 0 ELSE MonthToNum(row[idx.month])
RowValue(row, idx) ==
    IF idx.dataValue = 0 THEN NaN
    ELSE LET raw == row[idx.dataValue]
             rawPredicted == IF idx.predicted # 0 THEN row[idx.predicted] ELSE EmptyStr
         IN  StrToNum(IF raw # EmptyStr THEN raw ELSE rawPredicted)

\* The two `continue` tests (289, 294).
RowAccepted(row, idx) ==
    /\ RowIndicator(row, idx) # EmptyStr
    /\ IsFinite(RowYear(row, idx))
    /\ RowMonthNum(row, idx) # 0
    /\ IsFinite(RowValue(row, idx))

\* indicatorSet.add(indicator): a Set keeps its members in the order in which
\* they were first added.
SetAdd(members, x) ==
    IF \E i \in 1..Len(members) : members[i] = x THEN members ELSE Append(members, x)

\* One pass of the loop body (279-304) over acc = [totals, counts, indicatorSet].
AggregateRow(acc, r, headerRow) ==
    LET idx == ColumnIndexes(headerRow)
        row == NormalizeRow(r, Len(headerRow))
    IN  IF ~RowAccepted(row, idx) THEN acc
        ELSE LET indicator == RowIndicator(row, idx)
                 monthKey == MonthKey(RowYear(row, idx).n, RowMonthNum(row, idx))
             IN  [totals |-> Accumulate(acc.totals, indicator, monthKey,
                                        RowValue(row, idx).n),
                  counts |-> Accumulate(acc.counts, indicator, monthKey, 1),
                  indicatorSet |-> SetAdd(acc.indicatorSet, indicator)]

RECURSIVE AggregateFrom(_, _, _, _)
AggregateFrom(acc, dataRows, k, headerRow) ==
    IF k > Len(dataRows) THEN acc
    ELSE AggregateFrom(AggregateRow(acc, dataRows[k], headerRow), dataRows, k + 1,
                       headerRow)

Aggregate(dataRows, headerRow) ==
    AggregateFrom([totals |-> EmptyMap, counts |-> EmptyMap, indicatorSet |-> <<>>],
                  dataRows, 1, headerRow)

(***************************************************************************)
(* a.localeCompare(b): the root collation on the characters below.  Strings *)
(* are compared by their letters without regard to case first (white space *)
(* and punctuation before digits before letters, a prefix before the       *)
(* longer string), and by case, lower before upper, when those are equal.  *)
(***************************************************************************)
CollationOrder == <<" ", "-", ",", ".">> \o Digits \o LowerCase

PrimaryWeight(ch) == IndexOf(CollationOrder, LowerChar(ch))
CaseWeight(ch) == IF IndexOf(UpperCase, ch) # 0 THEN 1 ELSE 0

RECURSIVE CompareBy(_, _, _, _)
CompareBy(a, b, i, upper) ==
    IF i > Len(a) /\ i > Len(b) THEN 0
    ELSE IF i > Len(a) THEN -1
    ELSE IF i > Len(b) THEN 1
    ELSE LET x == IF upper THEN CaseWeight(a[i]) ELSE PrimaryWeight(a[i])
             y == IF upper THEN CaseWeight(b[i]) ELSE PrimaryWeight(b[i])
         IN  IF x < y THEN -1 ELSE IF x > y THEN 1 ELSE CompareBy(a, b, i + 1, upper)

LocaleCompare(a, b) ==
    LET primary == CompareBy(a, b, 1, FALSE)
    IN  IF primary # 0 THEN primary ELSE CompareBy(a, b, 1, TRUE)

\* x put into a sorted list behind every member that does not come after it
InsertByLocale(sorted, x) ==
    LET before == {i \in 1..Len(sorted) : LocaleCompare(sorted[i], x) <= 0}
        k == IF before = {} THEN 0 ELSE CHOOSE i \in before : \A j \in before : j <= i
    IN  SubSeq(sorted, 1, k) \o <<x>> \o SubSeq(sorted, k + 1, Len(sorted))

\* A list left in the order of first appearance.
SortOmitted(list) == list
\* Array.from(set).sort((a, b) => a.localeCompare(b)): the sort is stable
RECURSIVE SortByLocale(_)
SortByLocale(list) ==
    IF Len(list) = 0 THEN <<>>
    ELSE InsertByLocale(SortByLocale(SubSeq(list, 1, Len(list) - 1)), list[Len(list)])

\* indicatorList.find((v) => v.toLowerCase().includes('all')) ?? indicatorList[0] ?? ''
DefaultIndicator(indicatorList) ==
    LET hits == {i \in 1..Len(indicatorList) :
                    Includes(ToLowerCase(indicatorList[i]), NeedleAll)}
    IN  IF hits # {} THEN indicatorList[CHOOSE i \in hits : \A j \in hits : i <= j]
        ELSE IF Len(indicatorList) > 0 THEN indicatorList[1]
        ELSE EmptyStr

(***************************************************************************)
(* monthlyRows (330-350).                                                  *)
(***************************************************************************)
\* monthKey.split('-'): the pieces between the hyphens
RECURSIVE SplitDash(_)
SplitDash(s) ==
    LET k == IndexOf(s, "-")
    IN  IF k = 0 THEN <<s>>
        ELSE <<SubSeq(s, 1, k - 1)>> \o SplitDash(SubSeq(s, k + 1, Len(s)))

\* One entry of the series; mm is undefined, and Number(mm) NaN, for a key
\* without hyphen.
MonthlyEntry(monthKey, total, counts) ==
    LET parts == SplitDash(monthKey)
    IN  [monthKey |-> monthKey,
         year |-> StrToNum(parts[1]),
         monthNum |-> IF Len(parts) >= 2 THEN StrToNum(parts[2]) ELSE NaN,
         total |-> total,
         count |-> IF monthKey \in DOMAIN counts THEN counts[monthKey] ELSE 0]

\* entries.sort((a, b) => a.monthKey.localeCompare(b.monthKey)); the keys of
\* one object differ, and no two keys of digits and hyphens compare equal,
\* so the order of Object.entries does not show in the result.
RECURSIVE SortByMonthKey(_, _, _)
SortByMonthKey(keys, totals, counts) ==
    IF keys = {} THEN <<>>
    ELSE LET first == CHOOSE x \in keys : \A y \in keys : LocaleCompare(x, y) <= 0
         IN  <<MonthlyEntry(first, totals[first], counts)>>
                 \o SortByMonthKey(keys \ {first}, totals, counts)

MonthlyRows(totalsBy, countsBy, selected) ==
    IF totalsBy.null \/ selected = EmptyStr THEN <<>>
    ELSE LET totals == IF selected \in DOMAIN totalsBy.map
                       THEN totalsBy.map[selected] ELSE EmptyMap
             counts == IF ~countsBy.null /\ selected \in DOMAIN countsBy.map
                       THEN countsBy.map[selected] ELSE EmptyMap
         IN  SortByMonthKey(DOMAIN totals, totals, counts)

(***************************************************************************)
(* React state of the dataset: a message is [msg, found], found the header *)
(* names the message lists; a map state is null or an object.              *)
(***************************************************************************)
ErrorMsg(msg, found) == [msg |-> msg, found |-> found]
NoError == ErrorMsg("", <<>>)
NullMap == [null |-> TRUE, map |-> EmptyMap]
MapOf(m) == [null |-> FALSE, map |-> m]

ErrHttp == ErrorMsg("Failed to load CSV: 404 Not Found", <<>>)
ErrNetwork == ErrorMsg("Failed to fetch", <<>>)
ErrEmpty == ErrorMsg("CSV appears to be empty (missing header row).", <<>>)
ErrMissing(headerRow) == ErrorMsg("CSV missing required columns. Found headers: ", headerRow)

\* What load() makes of the text (250-316): the error it throws, or the
\* values it hands to the setters.
LoadOutcome(text) ==
    LET parsed == ParseCsv(text)
    IN  IF Len(parsed) = 0 \/ Len(parsed[1]) = 0
        THEN [ok |-> FALSE, error |-> ErrEmpty]
        ELSE LET headerRow == parsed[1]
                 dataRows == Tail(parsed)
             IN  IF MissingRequired(ColumnIndexes(headerRow))
                 THEN [ok |-> FALSE, error |-> ErrMissing(headerRow)]
                 ELSE LET agg == Aggregate(dataRows, headerRow)
                          indicatorList == SortByLocale(agg.indicatorSet)
                      IN  [ok |-> TRUE,
                           indicators |-> indicatorList,
                           selectedIndicator |-> DefaultIndicator(indicatorList),
                           totals |-> agg.totals,
                           counts |-> agg.counts]

(***************************************************************************)
(* The documents the server may serve at /data/overdoseRates.csv.          *)
(***************************************************************************)
F2021 == <<"2", "0", "2", "1">>
FJanuary == <<"J", "a", "n", "u", "a", "r", "y">>
FFebruary == <<"F", "e", "b", "r", "u", "a", "r", "y">>
FMarch == <<"M", "a", "r", "c", "h">>
FJan == <<"J", "a", "n">>
FOpioid == <<"O", "p", "i", "o", "i", "d">>
FHeroin == <<"H", "e", "r", "o", "i", "n">>
FOverall == <<"o", "v", "e", "r", "a", "l", "l">>
FOctober == <<"O", "c", "t", "o", "b", "e", "r">>
F999 == <<"9", "9", "9">>
FAllDrugs == <<"A", "l", "l", " ", "d", "r", "u", "g", "s">>
F10 == <<"1", "0">>
F5 == <<"5">>
F3 == <<"3">>
F7 == <<"7">>
F12 == <<"1", "2">>
FX == <<"x">>
FZZ == <<"z", "z">>

Comma == <<",">>
Line(fields) == Join(fields, Comma)

Header4 == Line(<<ColYear, ColMonth, ColIndicator, ColDataValue>>)
Header5 == Line(<<ColYear, ColMonth, ColIndicator, ColDataValue, ColPredictedValue>>)
HeaderNoIndicator == Line(<<ColYear, ColMonth, ColDataValue>>)
HeaderBlank == EmptyStr
Headers == {Header4, Header5, HeaderNoIndicator, HeaderBlank}

RowJan10 == Line(<<F2021, FJanuary, FOpioid, F10>>)
RowJan5 == Line(<<F2021, FJanuary, FOpioid, F5>>)
\* the Data Value left blank
RowFebBlank == Line(<<F2021, FFebruary, FOpioid, EmptyStr>>)
\* a Data Value that is no number, a predicted value and a field too many
RowNonNumeric == Line(<<F2021, FFebruary, FAllDrugs, FX, F12, FZZ>>)
\* fewer fields than the header
RowShort == Line(<<F2021, FMarch>>)
\* the Year left blank
RowNoYear == Line(<<EmptyStr, FJanuary, FOpioid, F3>>)
\* no month of the calendar
RowBadMonth == Line(<<F2021, FJan, FOpioid, F7>>)
\* the Data Value left blank, a predicted value given
RowPredicted == Line(<<F2021, FFebruary, FHeroin, EmptyStr, F12>>)
\* a blank line
RowEmpty == EmptyStr
\* a month of two digits
RowOct7 == Line(<<F2021, FOctober, FOpioid, F7>>)
\* a year of three digits
RowYear999 == Line(<<F999, FJanuary, FOpioid, F3>>)
\* indicators with 'all' in their names, in either case
RowAllDrugs == Line(<<F2021, FJanuary, FAllDrugs, F5>>)
RowOverall == Line(<<F2021, FMarch, FOverall, F5>>)
RowChoices == {RowJan10, RowJan5, RowFebBlank, RowNonNumeric, RowShort, RowNoYear,
               RowBadMonth, RowPredicted, RowEmpty, RowOct7, RowYear999, RowAllDrugs,
               RowOverall}

\* The lines, each ended by a line feed.
RECURSIVE Doc(_)
Doc(lines) == IF Len(lines) = 0 THEN EmptyStr ELSE lines[1] \o <<"\n">> \o Doc(Tail(lines))

\* The document of the worked example: two values of one month and a row
\* whose value is blank.
ScenarioText == Doc(<<Header4, RowJan10, RowJan5, RowFebBlank>>)

RowLists == UNION {[1..n -> RowChoices] : n \in 0..MaxRows}
Texts ==
    {EmptyStr, ScenarioText} \cup {Doc(<<h>> \o rows) : h \in Headers, rows \in RowLists}

NoText == [got |-> FALSE, text |-> EmptyStr]

(***************************************************************************)
(* The texts parseCsv is called with on its own: every text of up to       *)
(* MaxLen characters over a letter, the comma, the double quote and the    *)
(* line feed, and three longer ones.                                       *)
(***************************************************************************)
CsvAlphabet == {"a", ",", "\"", "\n"}

\* a,b LF c,""d"" LF  (the quotes of the second field as they stand)
QuotedExampleText ==
    <<"a", ",", "b", "\n", "c", ",", "\"", "\"", "\"", "d", "\"", "\"", "\"", "\n">>
\* The same with the quotes of the spec's own rendering: c,""d"" .
BareExampleText ==
    <<"a", ",", "b", "\n", "c", ",", "\"", "\"", "d", "\"", "\"", "\n">>
\* Windows line ends, one of them inside a quoted field
CrLfText ==
    <<"a", ",", "\"", "b", "\r", "\n", "c", "\"", "\r", "\n", "\r", "\n">>

CsvTexts ==
    UNION {[1..n -> CsvAlphabet] : n \in 0..MaxLen}
        \cup {QuotedExampleText, BareExampleText, CrLfText}

NotParsed == [done |-> FALSE, rows |-> <<>>]

(***************************************************************************)
(* The initial state: the values of useState (224-234), no effect run yet. *)
(***************************************************************************)
InitialStores == {NoDoc, VoteDoc(3, 1, 0, 0)}

InitApp ==
    /\ db \in BOOLEAN
    /\ store \in InitialStores
    /\ now = 0
    /\ voteStatus = [c \in Clients |-> IF db THEN "loading" ELSE "disabled"]
    /\ voteError = [c \in Clients |-> ""]
    /\ voteCounts = [c \in Clients |-> [forCount |-> 0, againstCount |-> 0]]
    /\ isVoting = [c \in Clients |-> FALSE]
    /\ life = [c \in Clients |-> "rendered"]
    /\ sub = [c \in Clients |-> "none"]
    /\ txPc = [c \in Clients |-> "idle"]
    /\ txDir = [c \in Clients |-> "for"]
    /\ txSnap = [c \in Clients |-> NoDoc]
    /\ txAttempt = [c \in Clients |-> 0]
    /\ initStore = store
    /\ nFor = 0
    /\ nAgainst = 0
    /\ nCast = 0
    /\ status = "loading"
    /\ error = NoError
    /\ indicators = <<>>
    /\ selectedIndicator = EmptyStr
    /\ totalsByIndicator = NullMap
    /\ countsByIndicator = NullMap
    /\ loadPc = "init"
    /\ cancelled = FALSE
    /\ resText = NoText

\* No text is handed to parseCsv on its own.
Init ==
    /\ InitApp
    /\ csvText = EmptyStr
    /\ csvRows = NotParsed

(***************************************************************************)
(* The component's life: its two effects run when it mounts (236-328,      *)
(* 360-392), their cleanups when it unmounts.                              *)
(***************************************************************************)
Mount(c) ==
    /\ life[c] = "rendered"
    /\ life' = [life EXCEPT ![c] = "mounted"]
    \* load(): setStatus('loading'), setError(''), then the fetch is awaited
    /\ IF c = Me
       THEN status' = "loading" /\ error' = NoError /\ loadPc' = "fetch"
       ELSE UNCHANGED <<status, error, loadPc>>
    \* if (!voteDocRef) return undefined; else subscribe
    /\ IF db
       THEN /\ voteStatus' = [voteStatus EXCEPT ![c] = "loading"]
            /\ voteError' = [voteError EXCEPT ![c] = ""]
            /\ sub' = [sub EXCEPT ![c] = "active"]
       ELSE UNCHANGED <<voteStatus, voteError, sub>>
    /\ UNCHANGED <<db, store, now, voteCounts, isVoting, txPc, txDir, txSnap,
                   txAttempt, initStore, nFor, nAgainst, nCast>>
    /\ UNCHANGED <<indicators, selectedIndicator, totalsByIndicator,
                   countsByIndicator, cancelled, resText>>
    /\ UNCHANGED csvVars

Unmount(c) ==
    /\ life[c] = "mounted"
    /\ life' = [life EXCEPT ![c] = "unmounted"]
    \* cancelled = true
    /\ cancelled' = IF c = Me THEN TRUE ELSE cancelled
    \* unsub()
    /\ sub' = [sub EXCEPT ![c] = IF @ = "none" THEN "none" ELSE "closed"]
    /\ UNCHANGED <<db, store, now, voteStatus, voteError, voteCounts, isVoting,
                   txPc, txDir, txSnap, txAttempt, initStore, nFor, nAgainst, nCast>>
    /\ UNCHANGED <<status, error, indicators, selectedIndicator, totalsByIndicator,
                   countsByIndicator, loadPc, resText>>
    /\ UNCHANGED csvVars

(***************************************************************************)
(* The vote tally.                                                         *)
(***************************************************************************)
\* The castVote call of c is over: its locals are gone.
TxEnd(c) ==
    /\ txPc' = [txPc EXCEPT ![c] = "idle"]
    /\ txDir' = [txDir EXCEPT ![c] = "for"]
    /\ txSnap' = [txSnap EXCEPT ![c] = NoDoc]
    /\ txAttempt' = [txAttempt EXCEPT ![c] = 0]

\* onSnapshot's next callback (368-384), called with the record as it is.
Snapshot(c) ==
    /\ sub[c] = "active"
    /\ voteCounts' = [voteCounts EXCEPT ![c] = SnapCounts(store)]
    /\ voteStatus' = [voteStatus EXCEPT ![c] = "ready"]
    /\ UNCHANGED <<db, store, now, voteError, isVoting, life, sub, txPc, txDir,
                   txSnap, txAttempt, initStore, nFor, nAgainst, nCast>>
    /\ UNCHANGED loadVars
    /\ UNCHANGED csvVars

\* onSnapshot's error callback (385-388); the listener ends with its error.
SnapshotError(c) ==
    /\ sub[c] = "active"
    /\ voteStatus' = [voteStatus EXCEPT ![c] = "error"]
    /\ voteError' = [voteError EXCEPT ![c] = SubErrorMsg]
    /\ sub' = [sub EXCEPT ![c] = "errored"]
    /\ UNCHANGED <<db, store, now, voteCounts, isVoting, life, txPc, txDir, txSnap,
                   txAttempt, initStore, nFor, nAgainst, nCast>>
    /\ UNCHANGED loadVars
    /\ UNCHANGED csvVars

\* castVote(direction) up to its await (399-406).  With db null it returns
\* at once.  The buttons are disabled while isVoting (553, 560).
CastVote(c, direction) ==
    /\ life[c] = "mounted"
    /\ nCast < MaxVotes
    /\ nCast' = nCast + 1
    /\ IF CastDisabled
       THEN UNCHANGED <<isVoting, voteError, txPc, txDir, txAttempt>>
       ELSE /\ ~isVoting[c]
            /\ isVoting' = [isVoting EXCEPT ![c] = TRUE]
            /\ voteError' = [voteError EXCEPT ![c] = ""]
            /\ txPc' = [txPc EXCEPT ![c] = "get"]
            /\ txDir' = [txDir EXCEPT ![c] = direction]
            /\ txAttempt' = [txAttempt EXCEPT ![c] = 1]
    /\ UNCHANGED <<db, store, now, voteStatus, voteCounts, life, sub, txSnap,
                   initStore, nFor, nAgainst>>
    /\ UNCHANGED loadVars
    /\ UNCHANGED csvVars

\* tx.get(voteDocRef) (407): the transaction reads the record.
TxGet(c) ==
    /\ txPc[c] = "get"
    /\ txSnap' = [txSnap EXCEPT ![c] = store]
    /\ txPc' = [txPc EXCEPT ![c] = "commit"]
    /\ UNCHANGED <<db, store, now, voteStatus, voteError, voteCounts, isVoting,
                   life, sub, txDir, txAttempt, initStore, nFor, nAgainst, nCast>>
    /\ UNCHANGED loadVars
    /\ UNCHANGED csvVars

\* The transaction commits its tx.set (408-429) at the server.
TxCommit(c) ==
    /\ txPc[c] = "commit"
    /\ CommitOK(c)
    /\ now' = now + 1
    /\ store' = MergeSet(store, VoteWrite(txSnap[c], txDir[c], now + 1))
    /\ nFor' = nFor + (IF txDir[c] = "for" THEN 1 ELSE 0)
    /\ nAgainst' = nAgainst + (IF txDir[c] = "against" THEN 1 ELSE 0)
    /\ txPc' = [txPc EXCEPT ![c] = "acked"]
    /\ UNCHANGED <<db, voteStatus, voteError, voteCounts, isVoting, life, sub,
                   txDir, txSnap, txAttempt, initStore, nCast>>
    /\ UNCHANGED loadVars
    /\ UNCHANGED csvVars

\* The record changed since tx.get: runTransaction runs the function again.
TxRetry(c) ==
    /\ txPc[c] = "commit"
    /\ ~CommitOK(c)
    /\ txPc' = [txPc EXCEPT ![c] = "get"]
    /\ txAttempt' = [txAttempt EXCEPT ![c] = @ + 1]
    /\ UNCHANGED <<db, store, now, voteStatus, voteError, voteCounts, isVoting,
                   life, sub, txDir, txSnap, initStore, nFor, nAgainst, nCast>>
    /\ UNCHANGED loadVars
    /\ UNCHANGED csvVars

\* runTransaction resolved: finally (433-435).
CastResolve(c) ==
    /\ txPc[c] = "acked"
    /\ isVoting' = [isVoting EXCEPT ![c] = FALSE]
    /\ TxEnd(c)
    /\ UNCHANGED <<db, store, now, voteStatus, voteError, voteCounts, life, sub,
                   initStore, nFor, nAgainst, nCast>>
    /\ UNCHANGED loadVars
    /\ UNCHANGED csvVars

\* A failure handler that calls the dataset's setters, setStatus and
\* setError, for the vote's.
CastFailWrongSetter(c) ==
    /\ txPc[c] \in {"get", "commit"}
    /\ status' = "error"
    /\ error' = ErrorMsg(TxErrorMsg, <<>>)
    /\ isVoting' = [isVoting EXCEPT ![c] = FALSE]
    /\ TxEnd(c)
    /\ UNCHANGED <<db, store, now, voteStatus, voteError, voteCounts, life, sub,
                   initStore, nFor, nAgainst, nCast>>
    /\ UNCHANGED <<indicators, selectedIndicator, totalsByIndicator,
                   countsByIndicator, loadPc, cancelled, resText>>
    /\ UNCHANGED csvVars

\* A failure handler that also shows the count it expected.
CastFailGuessing(c) ==
    /\ txPc[c] \in {"get", "commit"}
    /\ voteStatus' = [voteStatus EXCEPT ![c] = "error"]
    /\ voteError' = [voteError EXCEPT ![c] = TxErrorMsg]
    /\ voteCounts' = [voteCounts EXCEPT ![c].forCount = @ + 1]
    /\ isVoting' = [isVoting EXCEPT ![c] = FALSE]
    /\ TxEnd(c)
    /\ UNCHANGED <<db, store, now, life, sub, initStore, nFor, nAgainst, nCast>>
    /\ UNCHANGED loadVars
    /\ UNCHANGED csvVars

\* runTransaction rejected, nothing written (store unreachable, permission
\* denied): catch and finally (430-435).
CastFail(c) ==
    /\ txPc[c] \in {"get", "commit"}
    /\ voteStatus' = [voteStatus EXCEPT ![c] = "error"]
    /\ voteError' = [voteError EXCEPT ![c] = TxErrorMsg]
    /\ isVoting' = [isVoting EXCEPT ![c] = FALSE]
    /\ TxEnd(c)
    /\ UNCHANGED <<db, store, now, voteCounts, life, sub, initStore, nFor, nAgainst, nCast>>
    /\ UNCHANGED loadVars
    /\ UNCHANGED csvVars

(***************************************************************************)
(* load() after the fetch is started (244-321), for the instance Me.       *)
(***************************************************************************)
\* A late result is dropped: if (cancelled) return (306, 318).
DiscardedNever == FALSE
Discarded == cancelled

\* catch (e): 317-321
Caught(e) ==
    /\ loadPc' = "done"
    /\ IF Discarded
       THEN UNCHANGED <<status, error>>
       ELSE status' = "error" /\ error' = e
    /\ UNCHANGED <<indicators, selectedIndicator, totalsByIndicator, countsByIndicator>>

\* fetch resolved: with res.ok the body is awaited, else load() throws (245-247).
FetchResolve(ok) ==
    /\ loadPc = "fetch"
    /\ IF ok
       THEN loadPc' = "text" /\ UNCHANGED dataVars
       ELSE Caught(ErrHttp)
    /\ UNCHANGED <<cancelled, resText>>
    /\ UNCHANGED voteVars
    /\ UNCHANGED csvVars

\* fetch rejected (no network)
FetchReject ==
    /\ loadPc = "fetch"
    /\ Caught(ErrNetwork)
    /\ UNCHANGED <<cancelled, resText>>
    /\ UNCHANGED voteVars
    /\ UNCHANGED csvVars

\* res.text() rejected (the connection broke)
TextReject ==
    /\ loadPc = "text"
    /\ Caught(ErrNetwork)
    /\ UNCHANGED <<cancelled, resText>>
    /\ UNCHANGED voteVars
    /\ UNCHANGED csvVars

\* res.text() resolved: parse, aggregate and set the state (249-316).
TextResolve(text) ==
    /\ loadPc = "text"
    /\ resText' = [got |-> TRUE, text |-> text]
    /\ LET out == LoadOutcome(text)
       IN  IF ~out.ok THEN Caught(out.error)
           ELSE /\ loadPc' = "done"
                /\ IF Discarded
                   THEN UNCHANGED dataVars
                   ELSE /\ indicators' = out.indicators
                        /\ selectedIndicator' = out.selectedIndicator
                        /\ totalsByIndicator' = MapOf(out.totals)
                        /\ countsByIndicator' = MapOf(out.counts)
                        /\ status' = "ready"
                        /\ error' = error
    /\ UNCHANGED cancelled
    /\ UNCHANGED voteVars
    /\ UNCHANGED csvVars

(***************************************************************************)
(* parseCsv(text) called on its own (250).                                 *)
(***************************************************************************)
ParseText ==
    /\ ~csvRows.done
    /\ csvRows' = [done |-> TRUE, rows |-> ParseCsv(csvText)]
    /\ UNCHANGED csvText
    /\ UNCHANGED voteVars
    /\ UNCHANGED loadVars

(***************************************************************************)
(* Specifications.  SpecVote: the clients, which stay mounted, and the     *)
(* vote record, the dataset fetch still pending.  SpecLoad: the dataset    *)
(* load of one instance, which may unmount, the store not configured.      *)
(***************************************************************************)
NextVote ==
    \E c \in Clients :
        \/ Mount(c)
        \/ Snapshot(c)
        \/ SnapshotError(c)
        \/ \E direction \in Directions : CastVote(c, direction)
        \/ TxGet(c)
        \/ TxCommit(c)
        \/ TxRetry(c)
        \/ CastResolve(c)
        \/ CastFail(c)

NextLoad ==
    \/ Mount(Me)
    \/ Unmount(Me)
    \/ \E ok \in BOOLEAN : FetchResolve(ok)
    \/ FetchReject
    \/ TextReject
    \/ \E text \in Texts : TextResolve(text)

InitLoad == Init /\ ~db /\ store = NoDoc

\* One App instance with both its effects: the dataset load and the vote
\* widget side by side.  Alone at the record, its transaction never has to
\* run again.
AppTexts == {EmptyStr, ScenarioText, Doc(<<HeaderNoIndicator, RowJan10>>),
             Doc(<<Header5, RowPredicted, RowNonNumeric>>)}

NextApp ==
    \/ Mount(Me)
    \/ Unmount(Me)
    \/ Snapshot(Me)
    \/ SnapshotError(Me)
    \/ \E direction \in Directions : CastVote(Me, direction)
    \/ TxGet(Me)
    \/ TxCommit(Me)
    \/ CastResolve(Me)
    \/ CastFail(Me)
    \/ \E ok \in BOOLEAN : FetchResolve(ok)
    \/ FetchReject
    \/ TextReject
    \/ \E text \in AppTexts : TextResolve(text)

SpecVote == Init /\ [][NextVote]_vars
SpecLoad == InitLoad /\ [][NextLoad]_vars
SpecApp == Init /\ [][NextApp]_vars

\* parseCsv on every text of CsvTexts.
InitCsv ==
    /\ InitApp /\ ~db /\ store = NoDoc
    /\ csvText \in CsvTexts
    /\ csvRows = NotParsed

NextCsv == ParseText

SpecCsv == InitCsv /\ [][NextCsv]_vars

\* The listener owes c a callback: none has been made yet, or the record is
\* no longer the one c was last shown (every commit raises a count).
SnapshotOwed(c) ==
    /\ sub[c] = "active"
    /\ voteStatus[c] = "loading" \/ voteCounts[c] # SnapCounts(store)

\* What the runtime guarantees: the promise of runTransaction settles (each
\* attempt reads, then commits or runs again; the resolved promise runs the
\* finally block), and a listener that is alive delivers the snapshot it
\* owes.  Nothing obliges the user to vote, the store to fail or the
\* listener to break.
FairVote ==
    \A c \in Clients :
        /\ WF_vars(TxGet(c))
        /\ WF_vars(TxCommit(c) \/ TxRetry(c))
        /\ WF_vars(CastResolve(c))
        /\ WF_vars(SnapshotOwed(c) /\ Snapshot(c))

SpecVoteFair == Init /\ [][NextVote]_vars /\ FairVote

(***************************************************************************)
(* The claims about the vote record, checked under SpecVote.               *)
(***************************************************************************)
Zero == [forCount |-> 0, againstCount |-> 0]

\* The two counts of the record, a record that does not exist counting 0, 0.
RecordCounts(doc) ==
    IF doc.exists
    THEN [forCount |-> doc.data.forCount, againstCount |-> doc.data.againstCount]
    ELSE Zero

AllIdle == \A c \in Clients : txPc[c] = "idle"

\* C1: no lost update.  In every interleaving of the clients' castVote calls
\* the record holds the initial forCount plus the number of committed 'for'
\* votes and the initial againstCount plus the number of committed 'against'
\* votes.
C1_NoLostUpdate ==
    /\ RecordCounts(store).forCount = RecordCounts(initStore).forCount + nFor
    /\ RecordCounts(store).againstCount = RecordCounts(initStore).againstCount + nAgainst

\* From {for: 3, against: 1} two castVote('for') that ran concurrently (one
\* had to run again because the other committed first) end at {for: 5,
\* against: 1}.
C1_Witness ==
    /\ initStore = VoteDoc(3, 1, 0, 0)
    /\ nFor = 2 /\ nAgainst = 0
    /\ RecordCounts(store) = [forCount |-> 5, againstCount |-> 1]
    /\ \E c \in Clients : txPc[c] = "acked" /\ txAttempt[c] >= 2

\* C2: a committed castVote(direction) adds one to the count of its direction
\* and leaves the other count as it was, a record that does not exist
\* counting as 0 and 0.
C2_SingleVoteIncrement ==
    [][\A c \in Clients :
          (txPc[c] = "commit" /\ txPc'[c] = "acked") =>
              LET before == RecordCounts(store)
                  after == RecordCounts(store')
              IN  IF txDir[c] = "for"
                  THEN /\ after.forCount = before.forCount + 1
                       /\ after.againstCount = before.againstCount
                  ELSE /\ after.againstCount = before.againstCount + 1
                       /\ after.forCount = before.forCount]_vars

\* The first vote, an 'against', on a record that did not exist.
C2_Witness ==
    /\ initStore = NoDoc
    /\ RecordCounts(store) = [forCount |-> 0, againstCount |-> 1]
    /\ \E c \in Clients : txPc[c] = "acked" /\ txDir[c] = "against"

\* C3: when the castVote transaction fails the record is unchanged, the
\* client is in the error state with a message and its displayed counts are
\* unchanged; and the displayed counts only ever change to the counts of the
\* record, delivered by the live subscription, never within castVote.
C3_FailedVoteChangesNothing ==
    [][\A c \in Clients :
          /\ (txPc[c] \in {"get", "commit"} /\ txPc'[c] = "idle") =>
                 /\ store' = store
                 /\ voteStatus'[c] = "error"
                 /\ voteError'[c] # ""
                 /\ voteCounts'[c] = voteCounts[c]
          /\ (voteCounts'[c] # voteCounts[c]) =>
                 /\ sub[c] = "active"
                 /\ txPc'[c] = txPc[c]
                 /\ voteCounts'[c] = RecordCounts(store)]_vars

\* A client whose vote failed while another client's vote went through: it
\* shows the error and the counts its subscription delivered before.
C3_Witness ==
    \E c \in Clients :
        /\ voteStatus[c] = "error" /\ voteError[c] = TxErrorMsg
        /\ txPc[c] = "idle" /\ ~isVoting[c]
        /\ initStore = VoteDoc(3, 1, 0, 0)
        /\ voteCounts[c] = [forCount |-> 3, againstCount |-> 1]
        /\ RecordCounts(store) = [forCount |-> 4, againstCount |-> 1]

\* C8: with db null every client is in the disabled state and stays there:
\* no subscription, no transaction, no change of the vote state or of the
\* record, whatever is called.
C8_DisabledForever ==
    ~db =>
        /\ store = initStore
        /\ \A c \in Clients :
              /\ voteStatus[c] = "disabled"
              /\ sub[c] = "none"
              /\ txPc[c] = "idle"
              /\ ~isVoting[c]
              /\ voteError[c] = ""
              /\ voteCounts[c] = Zero

\* db is null, the components are mounted and castVote has been called.
C8_Witness ==
    /\ ~db
    /\ \A c \in Clients : life[c] = "mounted"
    /\ nCast = MaxVotes

\* C9: the counts of the record are non-negative integers and neither ever
\* decreases from one state of the record to the next.
C9_CountsMonotone ==
    [][LET before == RecordCounts(store)
           after == RecordCounts(store')
       IN  /\ after.forCount \in Nat
           /\ after.againstCount \in Nat
           /\ after.forCount >= before.forCount
           /\ after.againstCount >= before.againstCount]_vars

\* Votes of both directions have been committed by the two clients.
C9_Witness ==
    /\ initStore = VoteDoc(3, 1, 0, 0)
    /\ RecordCounts(store) = [forCount |-> 4, againstCount |-> 3]
    /\ AllIdle

\* C10: a vote on a record that exists leaves createdAt as it was and sets
\* updatedAt to a new stamp; a vote on a record that does not exist stamps
\* createdAt (and updatedAt) with the new stamp.
C10_CreatedAtPreserved ==
    [][store' # store =>
          /\ now' > now
          /\ store'.data.updatedAt = now'
          /\ IF store.exists
             THEN /\ store'.data.createdAt = store.data.createdAt
                  /\ store'.data.updatedAt # store.data.updatedAt
             ELSE store'.data.createdAt = now']_vars

\* Two votes after the start the record still has its first createdAt.
C10_Witness ==
    /\ initStore = VoteDoc(3, 1, 0, 0)
    /\ store.exists
    /\ store.data.createdAt = 0
    /\ store.data.updatedAt = 2

(***************************************************************************)
(* The claims about the dataset load, checked under SpecLoad.              *)
(***************************************************************************)
RequiredColumns == {ColYear, ColMonth, ColIndicator, ColDataValue}

\* The first row of the text names every required column.
HasRequiredColumns(text) ==
    LET parsed == ParseCsv(text)
    IN  /\ Len(parsed) > 0
        /\ \A name \in RequiredColumns : \E i \in 1..Len(parsed[1]) : parsed[1][i] = name

DataIsInitial ==
    /\ indicators = <<>>
    /\ selectedIndicator = EmptyStr
    /\ totalsByIndicator = NullMap
    /\ countsByIndicator = NullMap

\* The Data Value of the row is blank and there is no predicted value to
\* take its place.
BlankValue(r, headerRow) ==
    LET idx == ColumnIndexes(headerRow)
        row == NormalizeRow(r, Len(headerRow))
    IN  /\ row[idx.dataValue] = EmptyStr
        /\ idx.predicted = 0 \/ row[idx.predicted] = EmptyStr

\* C4: a data row whose Data Value is blank, with no Predicted Value column
\* (or that field blank too), is skipped: the totals and counts are those of
\* the document without such rows; in the worked example Opioid has 2021-01
\* with total 15 and count 2 and no 2021-02.
C4_BlankValueRowSkipped ==
    (status = "ready" /\ resText.got) =>
        LET parsed == ParseCsv(resText.text)
            headerRow == parsed[1]
            NotBlank(r) == ~BlankValue(r, headerRow)
            kept == Aggregate(SelectSeq(Tail(parsed), NotBlank), headerRow)
        IN  /\ totalsByIndicator = MapOf(kept.totals)
            /\ countsByIndicator = MapOf(kept.counts)
            /\ resText.text = ScenarioText =>
                   /\ totalsByIndicator =
                          MapOf(FOpioid :> (MonthKey(2021, 1) :> 15))
                   /\ countsByIndicator =
                          MapOf(FOpioid :> (MonthKey(2021, 1) :> 2))

\* C5: when the header row is missing or lacks a required column the load
\* ends in the error state (unless it was cancelled first) and never in
\* ready, and in the error state the indicators, the selection, the totals
\* and the counts have their initial empty values.
C5_BadHeaderIsError ==
    /\ status = "error" => DataIsInitial /\ error.msg # ""
    /\ (resText.got /\ ~HasRequiredColumns(resText.text)) =>
           /\ status # "ready"
           /\ DataIsInitial
           /\ ~cancelled => status = "error" /\ error.msg \in {ErrEmpty.msg, ErrMissing(<<>>).msg}

\* A header without Indicator, followed by a good row: the error names the
\* columns found.
C5_Witness ==
    /\ resText.got
    /\ resText.text = Doc(<<HeaderNoIndicator, RowJan10>>)
    /\ status = "error"
    /\ error = ErrMissing(<<ColYear, ColMonth, ColDataValue>>)
    /\ DataIsInitial

\* C6: with the four required columns in the header the load never ends in
\* the error state once the text has arrived, whatever the data rows, and
\* ends in ready unless it was cancelled.
C6_RowsNeverFatal ==
    (resText.got /\ HasRequiredColumns(resText.text)) =>
        /\ status # "error"
        /\ ~cancelled => status = "ready"

\* A document all of whose data rows are skipped is ready, with no indicator.
C6_Witness ==
    /\ resText.got
    /\ resText.text = Doc(<<Header4, RowNonNumeric, RowShort>>)
    /\ status = "ready"
    /\ indicators = <<>>
    /\ totalsByIndicator = MapOf(EmptyMap)

\* C7: once cancelled is set, no step changes status, error, indicators,
\* the selected indicator, the totals or the counts.
C7_LateResultDiscarded == [][cancelled => UNCHANGED dataVars]_vars

\* A good document arrived after the teardown and nothing was set.
C7_Witness ==
    /\ cancelled
    /\ loadPc = "done"
    /\ resText.got
    /\ resText.text = Doc(<<Header4, RowJan10>>)
    /\ status = "loading"
    /\ DataIsInitial

(***************************************************************************)
(* The claims about the progress of a vote, checked under SpecVoteFair.    *)
(***************************************************************************)
\* C11: every castVote that is started leaves the submitting sub-state
\* (isVoting is false again); one whose transaction failed ends in 'error',
\* one whose transaction succeeded ends in 'ready'; and while a vote is
\* submitting the snapshots of a live subscription are still applied.
C11_SubmittingEnds ==
    /\ \A c \in Clients : isVoting[c] ~> ~isVoting[c]
    /\ \A c \in Clients : txPc[c] = "acked" ~> voteStatus[c] = "ready"
    /\ [][\A c \in Clients :
             (txPc[c] \in {"get", "commit"} /\ txPc'[c] = "idle") =>
                 (~isVoting'[c] /\ voteStatus'[c] = "error")]_vars
    /\ [](\A c \in Clients :
             (isVoting[c] /\ sub[c] = "active") => ENABLED Snapshot(c))

\* C12: the error state is recoverable: in 'error' the buttons are enabled
\* as soon as no vote is submitting, and a vote started in 'error' whose
\* transaction succeeds brings the client to 'ready'.
C12_ErrorRecoverable ==
    /\ [](\A c \in Clients :
             (voteStatus[c] = "error" /\ life[c] = "mounted" /\ ~isVoting[c]
                 /\ nCast < MaxVotes)
                 => ENABLED CastVote(c, "for"))
    /\ \A c \in Clients :
           (voteStatus[c] = "error" /\ txPc[c] = "acked") ~> voteStatus[c] = "ready"

(***************************************************************************)
(* The claim about the two error domains, checked under SpecApp.           *)
(***************************************************************************)
\* The React state of the vote widget of the observed instance.
VoteState == <<voteStatus[Me], voteError[Me], voteCounts[Me], isVoting[Me]>>

\* C13: a step of the vote widget (a snapshot or an error of the
\* subscription, a castVote started, succeeded or failed) changes none of
\* status, error, indicators, selected indicator, totals and counts; a step
\* of the load (the fetch or the text resolved or rejected, whatever comes
\* of it) changes none of voteStatus, voteError, voteCounts and isVoting.
C13_ErrorDomainsIndependent ==
    [][/\ (life' = life /\ (sub' # sub \/ txPc' # txPc \/ nCast' # nCast
                              \/ VoteState' # VoteState))
             => UNCHANGED dataVars
       /\ (life' = life /\ loadPc' # loadPc) => UNCHANGED VoteState]_vars

\* A vote failed after the dataset was loaded, and the chart is as it was;
\* the vote's error is shown, the dataset's is empty.
C13_Witness ==
    /\ voteStatus[Me] = "error"
    /\ voteError[Me] = TxErrorMsg
    /\ status = "ready"
    /\ error = NoError
    /\ resText.text = ScenarioText
    /\ selectedIndicator = FOpioid

(***************************************************************************)
(* The claims about parseCsv, checked under SpecCsv.  RefParse states the  *)
(* rules of the tokenizer on the text as a whole: each character has one   *)
(* kind, the fields are what lies between the commas of a record, the      *)
(* records what lies between the line feeds.                               *)
(***************************************************************************)
\* The kinds of the characters from i on: "toggle" (a quote that switches
\* quoted mode), "first" and "second" (the two quotes of a pair inside quoted
\* mode), "comma" and "lf" (outside quoted mode), "cr", and "lit" (a
\* character of the field).
RECURSIVE RefKindsFrom(_, _, _, _)
RefKindsFrom(text, i, quoted, second) ==
    IF i > Len(text) THEN <<>>
    ELSE LET ch == text[i]
             kind == IF second THEN "second"
                     ELSE IF ch = "\""
                     THEN IF quoted /\ i < Len(text) /\ text[i + 1] = "\""
                          THEN "first" ELSE "toggle"
                     ELSE IF ch = "\r" THEN "cr"
                     ELSE IF quoted THEN "lit"
                     ELSE IF ch = "," THEN "comma"
                     ELSE IF ch = "\n" THEN "lf"
                     ELSE "lit"
         IN  <<kind>> \o RefKindsFrom(text, i + 1,
                                      IF kind = "toggle" THEN ~quoted ELSE quoted,
                                      kind = "first")

RefKinds(text) == RefKindsFrom(text, 1, FALSE, FALSE)

\* What the characters lo..hi put into a field.
RECURSIVE RefContent(_, _, _, _)
RefContent(text, kinds, lo, hi) ==
    IF lo > hi THEN EmptyStr
    ELSE (IF kinds[lo] = "lit" THEN <<text[lo]>>
          ELSE IF kinds[lo] = "first" THEN <<"\"">>
          ELSE EmptyStr) \o RefContent(text, kinds, lo + 1, hi)

\* The k-th smallest member of a set of positions.
NthOf(S, k) == CHOOSE x \in S : Cardinality({y \in S : y < x}) = k - 1

\* The pieces of lo..hi between the positions of kind sep, as [lo, hi].
RefPieces(kinds, lo, hi, sep) ==
    LET S == {i \in lo..hi : kinds[i] = sep}
        m == Cardinality(S)
        Cut(j) == IF j = 0 THEN lo - 1 ELSE IF j = m + 1 THEN hi + 1 ELSE NthOf(S, j)
    IN  [j \in 1..(m + 1) |-> [lo |-> Cut(j - 1) + 1, hi |-> Cut(j) - 1]]

\* The fields of the record that spans lo..hi.
RefFields(text, kinds, lo, hi) ==
    LET pieces == RefPieces(kinds, lo, hi, "comma")
    IN  [j \in 1..Len(pieces) |-> RefContent(text, kinds, pieces[j].lo, pieces[j].hi)]

\* The records: one for each line feed outside quoted mode, and one for what
\* follows the last line feed if a field was begun or ended there.
RefRecords(text) ==
    LET kinds == RefKinds(text)
        pieces == RefPieces(kinds, 1, Len(text), "lf")
        all == [k \in 1..Len(pieces) |->
                   RefFields(text, kinds, pieces[k].lo, pieces[k].hi)]
        last == all[Len(all)]
    IN  IF Len(last) > 1 \/ last[1] # EmptyStr
        THEN all
        ELSE SubSeq(all, 1, Len(all) - 1)

\* The index of the last row that has a field that is not empty, 0 if none.
LastFilled(rows) ==
    LET filled == {k \in 1..Len(rows) : \E j \in 1..Len(rows[k]) : rows[k][j] # EmptyStr}
    IN  IF filled = {} THEN 0 ELSE CHOOSE k \in filled : \A l \in filled : l <= k

RefParse(text) == LET all == RefRecords(text) IN SubSeq(all, 1, LastFilled(all))

RowAB == <<<<"a">>, <<"b">>>>

\* C14 as stated: parseCsv follows the quoting rules on every text (a quote
\* toggles quoted mode, a pair of quotes inside quoted mode is one literal
\* quote, commas and line feeds inside quoted mode belong to the field,
\* outside it they end the field, the line feed the row too), and the text
\* a,b LF c,""d"" LF yields the rows [a, b] and [c, "d"], the second field
\* with its quotes.
C14_QuotingRulesAsStated ==
    csvRows.done =>
        /\ csvRows.rows = RefParse(csvText)
        /\ csvText = BareExampleText =>
               csvRows.rows = <<RowAB, <<<<"c">>, <<"\"", "d", "\"">>>>>>

\* C14 amended: parseCsv follows the quoting rules on every text; by them
\* the text a,b LF c,""d"" LF yields [a, b] and [c, d], each "" switching
\* quoted mode on and off again, and it is the text a,b LF c,"""d""" LF
\* that yields [a, b] and [c, "d"].
C14_QuotingRules ==
    csvRows.done =>
        /\ csvRows.rows = RefParse(csvText)
        /\ csvText = BareExampleText =>
               csvRows.rows = <<RowAB, <<<<"c">>, <<"d">>>>>>
        /\ csvText = QuotedExampleText =>
               csvRows.rows = <<RowAB, <<<<"c">>, <<"\"", "d", "\"">>>>>>

\* The text with the escaped quotes has been parsed.
C14_Witness ==
    /\ csvRows.done
    /\ csvText = QuotedExampleText
    /\ csvRows.rows = <<RowAB, <<<<"c">>, <<"\"", "d", "\"">>>>>>

\* C18: parseCsv returns no row without fields, its last row has a field
\* that is not empty, and the rows it returns are the rows of the text up to
\* the last one with a field that is not empty, the empty rows among them
\* kept.
C18_TrailingEmptyRowsDropped ==
    csvRows.done =>
        LET all == ParseRows(csvText)
            rows == csvRows.rows
        IN  /\ \A k \in 1..Len(rows) : Len(rows[k]) >= 1
            /\ rows # <<>> => ~EveryEmpty(rows[Len(rows)])
            /\ Len(rows) = LastFilled(all)
            /\ \A k \in 1..Len(rows) : rows[k] = all[k]

\* LF a LF LF: the empty first row is kept, the empty third row dropped.
C18_Witness ==
    /\ csvRows.done
    /\ csvText = <<"\n", "a", "\n", "\n">>
    /\ csvRows.rows = << <<EmptyStr>>, <<<<"a">>>> >>

(***************************************************************************)
(* The claims about the aggregation and the series, checked under SpecLoad.*)
(***************************************************************************)
\* The data rows of the text that arrived, and its header.
ArrivedHeader == ParseCsv(resText.text)[1]
ArrivedRows == Tail(ParseCsv(resText.text))

\* The rows the pass did not skip.
AcceptedRows ==
    {k \in 1..Len(ArrivedRows) :
        RowAccepted(NormalizeRow(ArrivedRows[k], Len(ArrivedHeader)),
                    ColumnIndexes(ArrivedHeader))}

\* The sum of the values of a map.
RECURSIVE SumOf(_)
SumOf(f) ==
    IF DOMAIN f = {} THEN 0
    ELSE LET k == CHOOSE x \in DOMAIN f : TRUE
         IN  f[k] + SumOf([x \in DOMAIN f \ {k} |-> f[x]])

\* Strings of digits and hyphens in the order of their characters' codes.
CodeOrder == <<"-">> \o Digits

RECURSIVE CodeBefore(_, _)
CodeBefore(a, b) ==
    IF Len(b) = 0 THEN FALSE
    ELSE IF Len(a) = 0 THEN TRUE
    ELSE IF a[1] = b[1] THEN CodeBefore(Tail(a), Tail(b))
    ELSE IndexOf(CodeOrder, a[1]) < IndexOf(CodeOrder, b[1])

\* The series shown for the selected indicator.
Series == MonthlyRows(totalsByIndicator, countsByIndicator, selectedIndicator)

\* C15: monthlyRows has one entry for each MonthKey of the selected
\* indicator's totals, in ascending order of the MonthKey strings, and that
\* order is the order of time: by year, then by month number.
C15_SeriesChronological ==
    (status = "ready" /\ selectedIndicator # EmptyStr) =>
        LET totals == totalsByIndicator.map[selectedIndicator]
        IN  /\ Len(Series) = Cardinality(DOMAIN totals)
            /\ {Series[i].monthKey : i \in 1..Len(Series)} = DOMAIN totals
            /\ \A i \in 1..Len(Series) : Series[i].total = totals[Series[i].monthKey]
            /\ \A i, j \in 1..Len(Series) :
                   i < j =>
                       /\ CodeBefore(Series[i].monthKey, Series[j].monthKey)
                       /\ \/ Series[i].year.n < Series[j].year.n
                          \/ /\ Series[i].year.n = Series[j].year.n
                             /\ Series[i].monthNum.n < Series[j].monthNum.n

\* YYYY-MM: four digits, a hyphen, two digits that are a month from 01 to 12.
IsCanonicalMonthKey(key) ==
    /\ Len(key) = 7
    /\ \A i \in {1, 2, 3, 4, 6, 7} : IsDigit(key[i])
    /\ key[5] = "-"
    /\ DecimalValue(SubSeq(key, 6, 7)) \in 1..12

\* C17: every MonthKey the aggregation creates, in the totals and in the
\* counts, has the form YYYY-MM.
C17_MonthKeyCanonical ==
    status = "ready" =>
        \A ind \in DOMAIN totalsByIndicator.map :
            /\ \A key \in DOMAIN totalsByIndicator.map[ind] : IsCanonicalMonthKey(key)
            /\ \A key \in DOMAIN countsByIndicator.map[ind] : IsCanonicalMonthKey(key)

\* The indicators that own a bucket.
BucketOwners ==
    {ind \in DOMAIN totalsByIndicator.map : DOMAIN totalsByIndicator.map[ind] # {}}

\* The member of a set of names that comes before every other.
LeastByLocale(names) ==
    CHOOSE x \in names : \A y \in names \ {x} : LocaleCompare(x, y) < 0

\* C16: the indicator list is sorted, and the default selection is the first
\* name of it that contains 'all' in whatever case, else its first name, else
\* the empty selection: a function of the set of indicators of the data, in
\* whatever order the rows bring them.
C16_DefaultIndicator ==
    status = "ready" =>
        LET withAll == {x \in BucketOwners : Includes(ToLowerCase(x), NeedleAll)}
        IN  /\ {indicators[i] : i \in 1..Len(indicators)} = BucketOwners
            /\ \A i, j \in 1..Len(indicators) :
                   i < j => LocaleCompare(indicators[i], indicators[j]) < 0
            /\ selectedIndicator =
                   IF withAll # {} THEN LeastByLocale(withAll)
                   ELSE IF BucketOwners # {} THEN LeastByLocale(BucketOwners)
                   ELSE EmptyStr

\* 'overall' comes first in the data and 'All drugs' second: the list is
\* sorted the other way round and 'All drugs' is selected.
C16_Witness ==
    /\ status = "ready"
    /\ resText.text = Doc(<<Header4, RowOverall, RowAllDrugs>>)
    /\ indicators = <<FAllDrugs, FOverall>>
    /\ selectedIndicator = FAllDrugs

\* C19: after the pass the totals and the counts have the same indicators
\* and, for each, the same MonthKeys; every count is at least 1; the counts
\* add up to the number of rows that were not skipped; and the indicator
\* list holds exactly the indicators that own a bucket, each once.
C19_TotalsAndCountsAgree ==
    (status = "ready" /\ resText.got) =>
        LET totals == totalsByIndicator.map
            counts == countsByIndicator.map
        IN  /\ DOMAIN totals = DOMAIN counts
            /\ \A ind \in DOMAIN totals :
                   /\ DOMAIN totals[ind] = DOMAIN counts[ind]
                   /\ DOMAIN totals[ind] # {}
                   /\ \A key \in DOMAIN counts[ind] : counts[ind][key] >= 1
            /\ SumOf([ind \in DOMAIN counts |-> SumOf(counts[ind])])
                   = Cardinality(AcceptedRows)
            /\ {indicators[i] : i \in 1..Len(indicators)} = BucketOwners
            /\ Len(indicators) = Cardinality(BucketOwners)

\* Two rows in one bucket and a skipped row beside them.
C19_Witness ==
    /\ status = "ready"
    /\ resText.text = Doc(<<Header4, RowJan10, RowJan5>>)
    /\ countsByIndicator = MapOf(FOpioid :> (MonthKey(2021, 1) :> 2))
    /\ totalsByIndicator = MapOf(FOpioid :> (MonthKey(2021, 1) :> 15))
    /\ indicators = <<FOpioid>>

=============================================================================
